---- MODULE Spec2Model ----
(***************************************************************************)
(* A model of historian's two report pipelines:                            *)
(*   - sources/github.py: GitHub.report (prune, filter_types, the five     *)
(*     section handlers, stringify_group, grammatical_join, uniq);         *)
(*   - sources/bugzilla.py: handle (row loop), classify, report.           *)
(* Text is modelled by TLA+ strings built with \o; a rendered text is the  *)
(* sequence of its "\n"-terminated lines, each tagged with what it is      *)
(* (scope heading, section heading, bullet, blank).                        *)
(***************************************************************************)
EXTENDS Integers, Sequences, FiniteSets, TLC

VARIABLES
    history,    \* what user.iter_events() yields, in arrival order
    pc,         \* position in GitHub.report
    events,     \* report's local `events` (after prune / filter_types)
    groups,     \* the (repo, events) groups still to be visited by the loop
    repo,       \* the loop's `repo`
    unused,     \* report's local `unused`
    lines,      \* report's local `lines` (result of the last handler)
    taken,      \* per handler, the events its partitions took (locals `events`)
    result,     \* report's local `result`, as a sequence of tagged lines
    warnings,   \* everything print()ed as a warning, in order
    bzpc,       \* position in bugzilla.handle
    nrows,      \* rows of the activity table read so far
    bug_id,     \* handle's local `bug_id`
    activity,   \* handle's `activity`: bug -> set of activity types
    titles,     \* handle's `titles`: bug -> title
    bzprinted,  \* what classify and report print()ed
    bzout,      \* the text report() returns, as a sequence of tagged lines
    call,       \* the arguments (what, old, new) of a call of classify
    ret         \* what that call returned, once it has

ghvars ==
    <<history, pc, events, groups, repo, unused, lines, taken, result, warnings>>
bzvars == <<bzpc, nrows, bug_id, activity, titles, bzprinted, bzout>>
clvars == <<call, ret>>
vars == <<ghvars, bzvars, clvars>>

----------------------------------------------------------------------------
(* Bounds of the model *)

MaxEvents == 2
MaxSectionEvents == 3
MaxPushes == 3
MaxPrEvents == 3
MaxTime == 3
MaxRows == 4
MaxTimedEvents == 2

(* historian.py: the window [start, end), on the model's time scale 0..MaxTime *)
Start == 1
End == 3

Times == 0..MaxTime

(* the report subject: GitHub.report(who) *)
Who == "callahad"

----------------------------------------------------------------------------
(* Generic helpers *)

Range(s) == {s[i] : i \in DOMAIN s}

Count(s, x) == Cardinality({i \in DOMAIN s : s[i] = x})

Last(s) == s[Len(s)]

RECURSIVE Flatten(_)
Flatten(ss) == IF ss = <<>> THEN <<>> ELSE Head(ss) \o Flatten(Tail(ss))

(* Python's str ordering, for the strings the model sorts: their rank in    *)
(* this lexicographically ordered list.                                     *)
Lexicon ==
    <<"API", "Home", "callahad", "dev", "historian", "main", "mozilla", "persona">>

Rank(s) == CHOOSE i \in DOMAIN Lexicon : Lexicon[i] = s

(* a pair of strings as Python orders tuples: first string, then second *)
PairRank(pair) == Rank(pair[1]) * (Len(Lexicon) + 1) + Rank(pair[2])

(* sorted(s, key=...): stable; key[i] is the rank of the sort key of s[i] *)
StableSort(s, key) ==
    LET n == Len(s)
        pos(i) == 1 + Cardinality({j \in 1..n :
                        key[j] < key[i] \/ (key[j] = key[i] /\ j < i)})
    IN  [p \in 1..n |-> s[CHOOSE i \in 1..n : pos(i) = p]]

(* sorted() of the pairwise distinct elements of S; rank[x] orders them *)
SortSet(S, rank) ==
    LET pos(k) == 1 + Cardinality({k2 \in S : rank[k2] < rank[k]})
    IN  [p \in 1..Cardinality(S) |-> CHOOSE k \in S : pos(k) = p]

SortStrings(S) == SortSet(S, [x \in S |-> Rank(x)])

(* utils.partition: (filter(predicate), filterfalse(predicate)); `pass` is *)
(* the set of the elements of lst the predicate holds of                    *)
PartitionNoSplit(pass, lst) ==
    [yes |-> SelectSeq(lst, LAMBDA e : e \in pass), no |-> lst]

partition(pass, lst) ==
    [yes |-> SelectSeq(lst, LAMBDA e : e \in pass),
     no  |-> SelectSeq(lst, LAMBDA e : e \notin pass)]

partition_type(typ, lst) == partition({e \in Range(lst) : e.type = typ}, lst)

----------------------------------------------------------------------------
(* The event taxonomy *)

KEEP_EVENTS ==
    <<"CommitCommentEvent", "GollumEvent", "IssueCommentEvent", "IssuesEvent",
      "PublicEvent", "PullRequestEvent", "PullRequestReviewCommentEvent",
      "PushEvent", "ReleaseEvent">>

(* The first five literals are adjacent with no comma between them: Python *)
(* concatenates them into one string.                                       *)
IGNORE_EVENTS ==
    <<"DownloadEvent" \o "FollowEvent" \o "ForkApplyEvent" \o "GistEvent"
          \o "DeploymentEvent",
      "DeploymentStatusEvent", "MembershipEvent", "PageBuildEvent",
      "RepositoryEvent", "StatusEvent", "TeamAddEvent",
      "CreateEvent", "DeleteEvent", "ForkEvent", "MemberEvent", "WatchEvent">>

KNOWN_EVENTS == KEEP_EVENTS \o IGNORE_EVENTS

----------------------------------------------------------------------------
(* Events: github3 Event objects, with type, created_at, repo and payload.  *)
(* A payload is a record; a key the payload lacks is a field the record     *)
(* lacks, so payload['issue'] raising KeyError is "issue" \notin DOMAIN.    *)

Ev(type, t, rp, payload) ==
    [type |-> type, created_at |-> t, repo |-> rp, payload |-> payload]

Repo1 == <<"callahad", "historian">>
Repo2 == <<"mozilla", "persona">>

RepoName(rp) == rp[1] \o "/" \o rp[2]

(* pull requests and issues as the payloads carry them *)
PullReq(n, user, merged) ==
    [number |-> n, title |-> "PR" \o ToString(n),
     html_url |-> "https://github.com/pull/" \o ToString(n),
     user |-> [login |-> user], merged |-> merged]

(* issue.to_json() of a pull request's issue has the key 'pull_request' *)
PrIssue(n, user) ==
    [number |-> n, title |-> "PR" \o ToString(n),
     html_url |-> "https://github.com/pull/" \o ToString(n),
     user |-> [login |-> user], pull_request |-> TRUE]

Issue(n) ==
    [number |-> n, title |-> "Issue" \o ToString(n),
     html_url |-> "https://github.com/issues/" \o ToString(n),
     user |-> [login |-> "someone"]]

Push(t, rp, size, ref) ==
    Ev("PushEvent", t, rp, [size |-> size, ref |-> ref])

PullRequestEv(t, rp, action, pr) ==
    Ev("PullRequestEvent", t, rp, [action |-> action, pull_request |-> pr])

ReviewComment(t, rp, action, pr) ==
    Ev("PullRequestReviewCommentEvent", t, rp,
       [action |-> action, pull_request |-> pr])

Comment(t, rp, action, issue) ==
    Ev("IssueCommentEvent", t, rp, [action |-> action, issue |-> issue])

(* a comment event whose payload lacks the issue *)
MalformedComment(t, rp) ==
    Ev("IssueCommentEvent", t, rp, [action |-> "created"])

IssuesEv(t, rp, action, issue) ==
    Ev("IssuesEvent", t, rp, [action |-> action, issue |-> issue])

Plain(type, t, rp) == Ev(type, t, rp, [action |-> "none"])

Release(t, rp, name) ==
    Ev("ReleaseEvent", t, rp, [release |-> [name |-> name]])

(* a commit id is a sequence of characters *)
Sha1 == <<"d", "e", "a", "d", "b", "e", "e", "f", "0", "1">>

CommitComment(t, rp) ==
    Ev("CommitCommentEvent", t, rp,
       [comment |-> [commit_id |-> Sha1,
                     html_url |-> "https://github.com/commit/1#c"]])

Gollum(t, rp, names) ==
    Ev("GollumEvent", t, rp,
       [pages |-> [i \in DOMAIN names |-> [title |-> names[i]]]])

RefMain == <<"refs", "heads", "main">>
RefDev == <<"refs", "heads", "dev">>
RefFixMain == <<"refs", "heads", "fix", "main">>

(* Input sets of the specifications *)

(* all times, a kept kind, an ignored kind, two kinds in neither list *)
MixedUniverse ==
    UNION {{Push(t, Repo1, 1, RefMain),
            Release(t, Repo2, "v1"),
            Plain("WatchEvent", t, Repo1),
            Plain("DownloadEvent", t, Repo1),
            Plain("SponsorshipEvent", t, Repo2)} : t \in Times}

(* every kept kind, in the window *)
SectionsUniverse ==
    {Plain("PublicEvent", Start, Repo1),
     Release(Start, Repo1, "v1"),
     Push(Start, Repo1, 2, RefMain),
     Push(Start, Repo2, 0, RefMain),
     CommitComment(Start, Repo1),
     PullRequestEv(Start, Repo1, "opened", PullReq(1, Who, FALSE)),
     Comment(Start, Repo1, "created", PrIssue(1, Who)),
     ReviewComment(Start, Repo1, "created", PullReq(1, Who, FALSE)),
     IssuesEv(Start, Repo2, "opened", Issue(7)),
     Comment(Start, Repo2, "created", Issue(7)),
     Comment(Start, Repo2, "deleted", Issue(8)),
     MalformedComment(Start, Repo2),
     Gollum(Start, Repo1, <<"Home", "API">>)}

PushUniverse ==
    {Push(Start, Repo1, size, ref) :
        size \in 0..3, ref \in {RefMain, RefDev, RefFixMain}}

PrUniverse ==
    {PullRequestEv(Start, Repo1, "opened", PullReq(1, Who, FALSE)),
     PullRequestEv(Start, Repo1, "closed", PullReq(1, Who, FALSE)),
     PullRequestEv(Start, Repo1, "closed", PullReq(1, Who, TRUE)),
     PullRequestEv(Start, Repo1, "reopened", PullReq(1, Who, FALSE)),
     Comment(Start, Repo1, "created", PrIssue(1, Who)),
     PullRequestEv(Start, Repo1, "opened", PullReq(2, "octocat", FALSE)),
     PullRequestEv(Start, Repo1, "closed", PullReq(2, "octocat", FALSE)),
     PullRequestEv(Start, Repo1, "closed", PullReq(2, "octocat", TRUE)),
     IssuesEv(Start, Repo1, "opened", Issue(7)),
     IssuesEv(Start, Repo1, "closed", Issue(7)),
     Comment(Start, Repo1, "created", Issue(7))}

(* events of one repository at every time of the window: releases, issue   *)
(* and pull request changes, and the three kinds of comments                *)
TimedUniverse ==
    UNION {{Release(t, Repo1, "v1"),
            Release(t, Repo1, "v2"),
            IssuesEv(t, Repo1, "opened", Issue(7)),
            IssuesEv(t, Repo1, "closed", Issue(7)),
            Comment(t, Repo1, "created", Issue(7)),
            PullRequestEv(t, Repo1, "opened", PullReq(1, Who, FALSE)),
            PullRequestEv(t, Repo1, "closed", PullReq(1, Who, TRUE)),
            Comment(t, Repo1, "created", PrIssue(1, Who)),
            ReviewComment(t, Repo1, "created", PullReq(1, Who, FALSE))} :
           t \in Start..(End - 1)}

----------------------------------------------------------------------------
(* Local helpers of sources/github.py *)

Date(t) == ToString(t)

IncompleteMsg(start, oldest) ==
    "Warning: May be missing valid events between " \o Date(start)
        \o " and " \o Date(oldest)

PruneEndInclusive(iterable, start, end) ==
    [raised |-> iterable = <<>>,
     warnings |-> <<>>,
     events |-> SelectSeq(iterable,
                    LAMBDA e : start <= e.created_at /\ e.created_at <= end)]

(* prune: events[-1] of an empty list raises IndexError *)
prune(iterable, start, end) ==
    IF iterable = <<>>
    THEN [raised |-> TRUE, warnings |-> <<>>, events |-> <<>>]
    ELSE LET sorted == StableSort(iterable,
                           [i \in DOMAIN iterable |-> iterable[i].created_at])
             oldest_event == sorted[1]
         IN  [raised |-> FALSE,
              warnings |->
                  IF oldest_event.created_at >= start
                  THEN <<IncompleteMsg(start, oldest_event.created_at)>>
                  ELSE <<>>,
              events |-> SelectSeq(iterable,
                  LAMBDA e : start <= e.created_at /\ e.created_at < end)]

UnknownMsg(type) == "Warning: Ignored or unknown event type: " \o type

FilterNothing(types, iterable, verbose) ==
    [known |-> iterable, warnings |-> <<>>]

filter_types(types, iterable, verbose) ==
    LET p == partition({e \in Range(iterable) : e.type \in Range(types)},
                       iterable)
    IN  [known |-> p.yes,
         warnings |-> IF verbose
                      THEN [i \in DOMAIN p.no |-> UnknownMsg(p.no[i].type)]
                      ELSE <<>>]

(* is_issue_comment / is_pr_comment: the try body, and False on KeyError *)
is_issue_comment(event) ==
    IF "issue" \notin DOMAIN event.payload
    THEN FALSE
    ELSE /\ event.type = "IssueCommentEvent"
         /\ "pull_request" \notin DOMAIN event.payload.issue

is_pr_comment(event) ==
    IF "issue" \notin DOMAIN event.payload
    THEN FALSE
    ELSE /\ event.type = "IssueCommentEvent"
         /\ "pull_request" \in DOMAIN event.payload.issue

(* a line of rendered text *)
TextLine(kind, text) == [kind |-> kind, text |-> text]

Blank == TextLine("blank", "")

stringify_group(header, ls) ==
    IF ls = <<>>
    THEN <<>>
    ELSE <<TextLine("section", header \o ":"), Blank>>
             \o [i \in DOMAIN ls |-> TextLine("bullet", "* " \o ls[i])]
             \o <<Blank>>

(* sep.join(words) *)
RECURSIVE Join(_, _)
Join(sep, words) ==
    IF words = <<>> THEN ""
    ELSE IF Len(words) = 1 THEN words[1]
    ELSE words[1] \o sep \o Join(sep, Tail(words))

grammatical_join(words) ==
    IF Len(words) = 2
    THEN Join(" and ", words)
    ELSE LET n == Len(words)
             front == SubSeq(words, 1, n - 2)
             back == SubSeq(words, IF n >= 2 THEN n - 1 ELSE 1, n)
         IN  Join(", ", front \o <<Join(", and ", back)>>)

UniqAll(iterable) ==
    LET kept == {i \in DOMAIN iterable :
                    \A j \in 1..(i - 1) : iterable[j] # iterable[i]}
    IN  [p \in 1..Cardinality(kept) |->
            iterable[CHOOSE i \in kept :
                        Cardinality({j \in kept : j < i}) = p - 1]]

(* uniq: `previous` is the last item yielded, or None before the first *)
RECURSIVE UniqFrom(_, _)
UniqFrom(previous, iterable) ==
    IF iterable = <<>> THEN <<>>
    ELSE IF <<Head(iterable)>> = previous
         THEN UniqFrom(previous, Tail(iterable))
         ELSE <<Head(iterable)>> \o UniqFrom(<<Head(iterable)>>, Tail(iterable))

uniq(iterable) == UniqFrom(<<>>, iterable)

----------------------------------------------------------------------------
(* Event list processors.  Each returns the handler's (lines, unused) and,  *)
(* as `taken`, the events its partitions yielded.                           *)

handle_public_events(iterable) ==
    LET pub == partition_type("PublicEvent", iterable)
        rel == partition_type("ReleaseEvent", pub.no)
    IN  [lines |->
            [i \in DOMAIN pub.yes |->
                "made " \o RepoName(pub.yes[i].repo) \o " public"]
            \o [i \in DOMAIN rel.yes |->
                "published release: " \o rel.yes[i].payload.release.name],
         unused |-> rel.no,
         taken |-> pub.yes \o rel.yes]

(* event.payload['ref'].split('/')[-1] *)
Branch(ref) == Last(ref)

(* the defaultdict after the push loop: branch -> summed size *)
RECURSIVE PushCounts(_, _)
PushCounts(pushes, counts) ==
    IF pushes = <<>> THEN counts
    ELSE LET num == Head(pushes).payload.size
             branch == Branch(Head(pushes).payload.ref)
             old == IF branch \in DOMAIN counts THEN counts[branch] ELSE 0
         IN  IF num = 0
             THEN PushCounts(Tail(pushes), counts)
             ELSE PushCounts(Tail(pushes),
                      [b \in DOMAIN counts \cup {branch} |->
                          IF b = branch THEN old + num ELSE counts[b]])

NounPlural(count) == "commits"

Noun(count) == IF count = 1 THEN "commit" ELSE "commits"

PushLine(count, branch) ==
    "pushed " \o ToString(count) \o " " \o Noun(count)
        \o " to branch " \o branch

(* '{:.8}'.format(sha): at most the first 8 characters *)
Trunc8(sha) == Join("", SubSeq(sha, 1, IF Len(sha) < 8 THEN Len(sha) ELSE 8))

EmptyCounts == [b \in {} |-> 0]

handle_commit_events(iterable) ==
    LET push == partition_type("PushEvent", iterable)
        counts == PushCounts(push.yes, EmptyCounts)
        branches == SortStrings(DOMAIN counts)
        cc == partition_type("CommitCommentEvent", push.no)
    IN  [lines |->
            [i \in DOMAIN branches |-> PushLine(counts[branches[i]], branches[i])]
            \o [i \in DOMAIN cc.yes |->
                "commented on commit ["
                    \o Trunc8(cc.yes[i].payload.comment.commit_id) \o "]("
                    \o cc.yes[i].payload.comment.html_url \o ")"],
         unused |-> cc.no,
         taken |-> push.yes \o cc.yes]

ByCreatedAt(evs) == StableSort(evs, [i \in DOMAIN evs |-> evs[i].created_at])

(* lines 189-195: the verb of one pull request event *)
PrVerbRescindMerged(event, who) ==
    LET pr == event.payload.pull_request
        a0 == event.payload.action
        a1 == IF pr.user.login = who /\ a0 = "opened" THEN "proposed" ELSE a0
        a2 == IF pr.user.login = who /\ a1 = "closed" THEN "rescinded" ELSE a1
    IN  IF a2 = "closed" /\ pr.merged THEN "merged" ELSE a2

pr_verb(event, who) ==
    LET pr == event.payload.pull_request
        a0 == event.payload.action
        a1 == IF a0 = "closed" /\ pr.merged THEN "merged" ELSE a0
        a2 == IF pr.user.login = who /\ a1 = "opened" THEN "proposed" ELSE a1
    IN  IF pr.user.login = who /\ a2 = "closed" THEN "rescinded" ELSE a2

PrKey(pr) == <<pr.number, pr.title, pr.html_url, pr.user.login>>

(* actions[key].append(verb) for each entry of a list of <<key, verb>> *)
RECURSIVE AppendAll(_, _)
AppendAll(actions, entries) ==
    IF entries = <<>> THEN actions
    ELSE LET key == Head(entries)[1]
             verb == Head(entries)[2]
             old == IF key \in DOMAIN actions THEN actions[key] ELSE <<>>
         IN  AppendAll([k \in DOMAIN actions \cup {key} |->
                           IF k = key THEN Append(old, verb) ELSE actions[k]],
                       Tail(entries))

EmptyActions == [k \in {} |-> <<>>]

NotDeleted(evs) == SelectSeq(evs, LAMBDA e : e.payload.action # "deleted")

(* the three loops of handle_pr_events, lines 180-227 *)
PrEntries(prs, comments, reviews, who) ==
    LET a == ByCreatedAt(prs)
        b == NotDeleted(ByCreatedAt(comments))
        c == NotDeleted(ByCreatedAt(reviews))
    IN  [i \in DOMAIN a |->
            <<PrKey(a[i].payload.pull_request), pr_verb(a[i], who)>>]
        \o [i \in DOMAIN b |-> <<PrKey(b[i].payload.issue), "discussed">>]
        \o [i \in DOMAIN c |->
            <<PrKey(c[i].payload.pull_request), "discussed">>]

(* the defaultdict `actions` after the three loops *)
PrActions(prs, comments, reviews, who) ==
    AppendAll(EmptyActions, PrEntries(prs, comments, reviews, who))

(* sorted(actions.items()): tuple comparison of the keys; the keys of the   *)
(* model differ in their first component, the number                        *)
SortKeys(keys) == SortSet(keys, [k \in keys |-> k[1]])

PrLineText(did, key, who) ==
    IF key[4] = who
    THEN did \o " [pull request #" \o ToString(key[1]) \o "](" \o key[3]
             \o "): " \o key[2]
    ELSE did \o " [pull request #" \o ToString(key[1]) \o "](" \o key[3]
             \o ") by @" \o key[4] \o ": " \o key[2]

(* line 230 and 273: grammatical_join(list(uniq(actions))) *)
Did(actions) == grammatical_join(uniq(actions))

handle_pr_events(iterable, who) ==
    LET prs == partition_type("PullRequestEvent", iterable)
        com == partition({e \in Range(prs.no) : is_pr_comment(e)}, prs.no)
        rev == partition_type("PullRequestReviewCommentEvent", com.no)
        actions == PrActions(prs.yes, com.yes, rev.yes, who)
        keys == SortKeys(DOMAIN actions)
    IN  [lines |->
            [i \in DOMAIN keys |-> PrLineText(Did(actions[keys[i]]), keys[i], who)],
         unused |-> rev.no,
         taken |-> prs.yes \o com.yes \o rev.yes]

IssueKey(issue) == <<issue.number, issue.title, issue.html_url>>

IssueEntries(iss, comments) ==
    LET b == NotDeleted(comments)
    IN  [i \in DOMAIN iss |->
            <<IssueKey(iss[i].payload.issue), iss[i].payload.action>>]
        \o [i \in DOMAIN b |-> <<IssueKey(b[i].payload.issue), "discussed">>]

IssueActions(iss, comments) ==
    AppendAll(EmptyActions, IssueEntries(iss, comments))

IssueLineText(did, key) ==
    did \o " [issue #" \o ToString(key[1]) \o "](" \o key[3] \o ") - " \o key[2]

handle_issue_events(iterable) ==
    LET iss == partition_type("IssuesEvent", iterable)
        com == partition({e \in Range(iss.no) : is_issue_comment(e)}, iss.no)
        actions == IssueActions(iss.yes, com.yes)
        keys == SortKeys(DOMAIN actions)
    IN  [lines |->
            [i \in DOMAIN keys |-> IssueLineText(Did(actions[keys[i]]), keys[i])],
         unused |-> com.no,
         taken |-> iss.yes \o com.yes]

handle_wiki_events(iterable) ==
    LET gol == partition_type("GollumEvent", iterable)
        pages == UNION {{gol.yes[i].payload.pages[j].title :
                            j \in DOMAIN gol.yes[i].payload.pages} :
                        i \in DOMAIN gol.yes}
        sorted == SortStrings(pages)
    IN  [lines |-> [i \in DOMAIN sorted |-> "edited wiki page - " \o sorted[i]],
         unused |-> gol.no,
         taken |-> gol.yes]

UnusedMsg(type) == "Warning: Unused event of type " \o type

----------------------------------------------------------------------------
(* GitHub.report *)

(* groupby(sorted(events, key=repo), key=repo) *)
GroupByRepo(evs) ==
    LET sorted == StableSort(evs, [i \in DOMAIN evs |-> PairRank(evs[i].repo)])
        repos == SortSet({e.repo : e \in Range(evs)},
                         [r \in {e.repo : e \in Range(evs)} |-> PairRank(r)])
    IN  [i \in DOMAIN repos |->
            [repo |-> repos[i],
             events |-> SelectSeq(sorted, LAMBDA e : e.repo = repos[i])]]

NoneTaken ==
    [public |-> <<>>, commit |-> <<>>, pr |-> <<>>, issue |-> <<>>, wiki |-> <<>>]

InitGitHub ==
    /\ history = <<>>
    /\ pc = "fetch"
    /\ events = <<>>
    /\ groups = <<>>
    /\ repo = <<>>
    /\ unused = <<>>
    /\ lines = <<>>
    /\ taken = NoneTaken
    /\ result = <<>>
    /\ warnings = <<>>

(* user.iter_events() yields one more event *)
Fetch(universe, max) ==
    /\ pc = "fetch"
    /\ Len(history) < max
    /\ \E e \in universe : history' = Append(history, e)
    /\ UNCHANGED <<pc, events, groups, repo, unused, lines, taken, result, warnings,
                   bzvars, clvars>>

FetchMixed == Fetch(MixedUniverse, MaxEvents)
FetchSections == Fetch(SectionsUniverse, MaxSectionEvents)
FetchPush == Fetch(PushUniverse, MaxPushes)
FetchPr == Fetch(PrUniverse, MaxPrEvents)
FetchTimed == Fetch(TimedUniverse, MaxTimedEvents)

(* line 69: the history is complete, report prunes it *)
Prune ==
    /\ pc = "fetch"
    /\ LET r == prune(history, Start, End)
       IN  IF r.raised
           THEN /\ pc' = "failed"
                /\ UNCHANGED <<events, warnings>>
           ELSE /\ pc' = "known"
                /\ events' = r.events
                /\ warnings' = warnings \o r.warnings
    /\ UNCHANGED <<history, groups, repo, unused, lines, taken, result, bzvars, clvars>>

(* line 72 *)
FilterKnown ==
    /\ pc = "known"
    /\ LET r == filter_types(KNOWN_EVENTS, events, TRUE)
       IN  /\ events' = r.known
           /\ warnings' = warnings \o r.warnings
    /\ pc' = "keep"
    /\ UNCHANGED <<history, groups, repo, unused, lines, taken, result, bzvars, clvars>>

(* line 75 *)
FilterKeep ==
    /\ pc = "keep"
    /\ LET r == filter_types(KEEP_EVENTS, events, FALSE)
       IN  /\ events' = r.known
           /\ warnings' = warnings \o r.warnings
    /\ pc' = "group"
    /\ UNCHANGED <<history, groups, repo, unused, lines, taken, result, bzvars, clvars>>

(* line 79: sorted and grouped by repository *)
Group ==
    /\ pc = "group"
    /\ groups' = GroupByRepo(events)
    /\ pc' = "loop"
    /\ UNCHANGED <<history, events, repo, unused, lines, taken, result, warnings,
                   bzvars, clvars>>

ScopeHeading(rp) == <<TextLine("scope", "#### " \o RepoName(rp)), Blank>>

(* lines 79-84: the loop takes the next repository *)
NextRepo ==
    /\ pc = "loop"
    /\ groups # <<>>
    /\ result' = result \o ScopeHeading(Head(groups).repo)
    /\ repo' = Head(groups).repo
    /\ unused' = Head(groups).events
    /\ groups' = Tail(groups)
    /\ taken' = NoneTaken
    /\ lines' = <<>>
    /\ pc' = "public"
    /\ UNCHANGED <<history, events, warnings, bzvars, clvars>>

(* one handler call and the stringify_group after it *)
Handle(at, next, header, r, field) ==
    /\ pc = at
    /\ lines' = r.lines
    /\ unused' = r.unused
    /\ taken' = [taken EXCEPT ![field] = r.taken]
    /\ result' = result \o stringify_group(header, r.lines)
    /\ pc' = next
    /\ UNCHANGED <<history, events, groups, repo, warnings, bzvars, clvars>>

HandlePublic ==
    Handle("public", "commit", "Publications and Releases",
           handle_public_events(unused), "public")

HandleCommit ==
    Handle("commit", "pr", "Commits and Comments",
           handle_commit_events(unused), "commit")

HandlePr ==
    Handle("pr", "issue", "Pull Requests", handle_pr_events(unused, Who), "pr")

HandleIssue ==
    Handle("issue", "wiki", "Issues", handle_issue_events(unused), "issue")

HandleWiki ==
    Handle("wiki", "warn", "Wiki", handle_wiki_events(unused), "wiki")

(* lines 106-107 *)
WarnUnused ==
    /\ pc = "warn"
    /\ warnings' = warnings \o [i \in DOMAIN unused |-> UnusedMsg(unused[i].type)]
    /\ pc' = "loop"
    /\ UNCHANGED <<history, events, groups, repo, unused, lines, taken, result,
                   bzvars, clvars>>

(* lines 109-111 *)
Finish ==
    /\ pc = "loop"
    /\ groups = <<>>
    /\ pc' = "done"
    /\ UNCHANGED <<history, events, groups, repo, unused, lines, taken, result,
                   warnings, bzvars, clvars>>

(* lines 84-104: the text the five handlers add for one repository's events *)
GroupText(evs, who) ==
    LET pub == handle_public_events(evs)
        com == handle_commit_events(pub.unused)
        prs == handle_pr_events(com.unused, who)
        iss == handle_issue_events(prs.unused)
        wik == handle_wiki_events(iss.unused)
    IN  stringify_group("Publications and Releases", pub.lines)
            \o stringify_group("Commits and Comments", com.lines)
            \o stringify_group("Pull Requests", prs.lines)
            \o stringify_group("Issues", iss.lines)
            \o stringify_group("Wiki", wik.lines)

(* lines 69-111: the text report returns for a non-empty history *)
ReportText(iterable, who) ==
    LET pruned == prune(iterable, Start, End).events
        known == filter_types(KNOWN_EVENTS, pruned, TRUE).known
        kept == filter_types(KEEP_EVENTS, known, FALSE).known
        grouped == GroupByRepo(kept)
    IN  Flatten([i \in DOMAIN grouped |->
                    ScopeHeading(grouped[i].repo)
                        \o GroupText(grouped[i].events, who)])

Report ==
    \/ Prune \/ FilterKnown \/ FilterKeep \/ Group \/ NextRepo
    \/ HandlePublic \/ HandleCommit \/ HandlePr \/ HandleIssue \/ HandleWiki
    \/ WarnUnused \/ Finish


----------------------------------------------------------------------------
(* sources/bugzilla.py *)

REPORTED == "reported"
ATTACHMENTS == "attachments"
NEEDINFO == "needinfo"
DISCUSSED == "discussed"
STATUS == "status"
TAGGED == "tagged"
METADATA == "metadata"
TRIAGED == "triaged"
OTHER_ == "other"

(* classify returns None *)
None == "None"

(* Cell texts.  A field name (`what`) is the sequence of its words, the     *)
(* text being the words joined by single spaces.  An old or new value is    *)
(* the sequence of its fragments, the text being their concatenation; the   *)
(* markers classify looks for occur only as whole fragments.                *)
StartsWithWord(what, word) == Len(what) >= 2 /\ what[1] = word

Contains(value, marker) == marker \in Range(value)

IgnoreFields ==
    {<<"CC">>, <<"Hardware">>, <<"Version">>, <<"OS">>, <<"Last", "Resolved">>,
     <<"Ever", "confirmed">>}

MetaFields ==
    {<<"Whiteboard">>, <<"See", "Also">>, <<"Blocks">>, <<"Depends", "on">>,
     <<"Keywords">>, <<"Summary">>}

classify(what, old, new) ==
    IF what \in IgnoreFields THEN None
    ELSE IF what = <<"Bug", "ID">> /\ old = <<"(new bug)">> THEN REPORTED
    ELSE IF StartsWithWord(what, "Attachment") THEN ATTACHMENTS
    ELSE IF what = <<"Flags">>
            /\ (Contains(new, "needinfo") \/ Contains(old, "needinfo"))
         THEN NEEDINFO
    ELSE IF StartsWithWord(what, "Comment") THEN DISCUSSED
    ELSE IF what \in {<<"Status">>, <<"Resolution">>} THEN STATUS
    ELSE IF what = <<"Keywords">> /\ Contains(new, "DevAdvocacy") THEN TAGGED
    ELSE IF what = <<"Whiteboard">>
            /\ (Contains(new, "DevRel:P") # Contains(old, "DevRel:P"))
         THEN TRIAGED
    ELSE IF what \in MetaFields THEN METADATA
    ELSE OTHER_

(* classify prints when it falls through to OTHER_ *)
ClassifyPrints(what, old, new) ==
    IF classify(what, old, new) = OTHER_
    THEN <<[msg |-> "Unhandled Interaction", what |-> what, old |-> old,
            new |-> new]>>
    ELSE <<>>

(* A bug id is the sequence of its decimal digits; int(bug) is its value *)
RECURSIVE IntOf(_)
IntOf(digits) ==
    IF digits = <<>> THEN 0
    ELSE 10 * IntOf(SubSeq(digits, 1, Len(digits) - 1)) + Last(digits)

BugText(bug) == Join("", [i \in DOMAIN bug |-> ToString(bug[i])])

BugLink(bug) ==
    "[Bug " \o BugText(bug) \o "](https://bugzilla.mozilla.org/show_bug.cgi?id="
        \o BugText(bug) \o ")"

(* html.escape(title, quote=False), on a title given as its characters *)
Escape(title) ==
    Join("", [i \in DOMAIN title |->
                 CASE title[i] = "&" -> "&amp;"
                   [] title[i] = "<" -> "&lt;"
                   [] title[i] = ">" -> "&gt;"
                   [] OTHER -> title[i]])

Description(group, n) ==
    CASE group = REPORTED -> "Reported " \o ToString(n) \o " Bugs"
      [] group = ATTACHMENTS ->
            "Added or Modified Attachments on " \o ToString(n) \o " Bugs"
      [] group = NEEDINFO ->
            "Set or Cleared Needinfo? Flag on " \o ToString(n) \o " Bugs"
      [] group = DISCUSSED -> "Discussed " \o ToString(n) \o " Bugs"
      [] group = STATUS -> "Changed Status on " \o ToString(n) \o " Bugs"
      [] group = TAGGED -> "Tagged " \o ToString(n) \o " Bugs as DevAdvocacy"
      [] group = METADATA -> "Updated Metadata on " \o ToString(n) \o " Bugs"
      [] group = OTHER_ -> "Interacted with " \o ToString(n) \o " Other Bugs"

(* the keys of buglists, in the OrderedDict's order *)
BugListOrder ==
    <<REPORTED, ATTACHMENTS, NEEDINFO, DISCUSSED, STATUS, METADATA, TAGGED, OTHER_>>

BucketLowestFirst(actions) ==
    IF OTHER_ \in actions THEN OTHER_
    ELSE IF METADATA \in actions THEN METADATA
    ELSE IF TAGGED \in actions THEN TAGGED
    ELSE IF STATUS \in actions THEN STATUS
    ELSE IF DISCUSSED \in actions THEN DISCUSSED
    ELSE IF NEEDINFO \in actions THEN NEEDINFO
    ELSE IF ATTACHMENTS \in actions THEN ATTACHMENTS
    ELSE IF REPORTED \in actions THEN REPORTED
    ELSE IF TRIAGED \in actions THEN None
    ELSE OTHER_

(* lines 156-177: the list a bug is appended to; None when it is skipped *)
Bucket(actions) ==
    IF REPORTED \in actions THEN REPORTED
    ELSE IF ATTACHMENTS \in actions THEN ATTACHMENTS
    ELSE IF NEEDINFO \in actions THEN NEEDINFO
    ELSE IF DISCUSSED \in actions THEN DISCUSSED
    ELSE IF STATUS \in actions THEN STATUS
    ELSE IF TAGGED \in actions THEN TAGGED
    ELSE IF METADATA \in actions THEN METADATA
    ELSE IF OTHER_ \in actions THEN OTHER_
    ELSE IF TRIAGED \in actions THEN None
    ELSE OTHER_

UnrecognizedPrints(act) ==
    LET odd == {b \in DOMAIN act :
                   act[b] \cap {REPORTED, ATTACHMENTS, NEEDINFO, DISCUSSED,
                                STATUS, TAGGED, METADATA, OTHER_, TRIAGED} = {}}
        sorted == SortSet(odd, [b \in odd |-> IntOf(b)])
    IN  [i \in DOMAIN sorted |->
            [msg |-> "Unrecognized logged action", bug |-> sorted[i],
             actions |-> act[sorted[i]]]]

BugSection(group, act, ttl) ==
    LET bugs == {b \in DOMAIN act : Bucket(act[b]) = group}
        sorted == SortSet(bugs, [b \in bugs |-> IntOf(b)])
    IN  IF bugs = {}
        THEN <<>>
        ELSE <<TextLine("scope",
                   "#### " \o Description(group, Cardinality(bugs)) \o ":"),
               Blank>>
             \o [i \in DOMAIN sorted |->
                    TextLine("bullet", "* " \o BugLink(sorted[i]) \o " - "
                                           \o Escape(ttl[sorted[i]]))]
             \o <<Blank>>

TriagedAmongOthers(act) ==
    {b \in DOMAIN act : TRIAGED \in act[b] /\ act[b] # {TRIAGED}}

(* line 192 *)
Triaged(act) == {b \in DOMAIN act : TRIAGED \in act[b]}

TriagedSection(act) ==
    IF Triaged(act) = {}
    THEN <<>>
    ELSE <<TextLine("scope",
               "#### Triaged " \o ToString(Cardinality(Triaged(act)))
                   \o " DevAdvocacy Bugs"),
           Blank,
           TextLine("bullet", "* _not listed_")>>

bz_report(act, ttl) ==
    Flatten([i \in DOMAIN BugListOrder |-> BugSection(BugListOrder[i], act, ttl)])
        \o TriagedSection(act)

(* Rows of the activity table: (bug, when, what, old, new) and the title    *)
(* attribute of the bug's link, as <<status, characters of the summary>>.   *)
(* `when` is never read.                                                    *)
Bugs == {<<9>>, <<1, 0>>}

TitleAttr(bug) ==
    IF bug = <<9>> THEN <<"NEW", <<"a", "<", "b">>>>
    ELSE <<"RESOLVED", <<"R", "&", "D">>>>

Changes ==
    {<<<<"CC">>, <<>>, <<"dev@example.com">>>>,
     <<<<"Bug", "ID">>, <<"(new bug)">>, <<"9">>>>,
     <<<<"Attachment", "1">>, <<>>, <<"patch">>>>,
     <<<<"Flags">>, <<>>, <<"needinfo", "?(dev@example.com)">>>>,
     <<<<"Flags">>, <<"needinfo", "?(dev@example.com)">>, <<>>>>,
     <<<<"Flags">>, <<>>, <<"review", "+">>>>,
     <<<<"Comment", "3">>, <<>>, <<"edited">>>>,
     <<<<"Status">>, <<"NEW">>, <<"RESOLVED">>>>,
     <<<<"Resolution">>, <<>>, <<"FIXED">>>>,
     <<<<"Keywords">>, <<>>, <<"DevAdvocacy">>>>,
     <<<<"Keywords">>, <<"DevAdvocacy">>, <<"DevAdvocacy", ", ", "perf">>>>,
     <<<<"Keywords">>, <<"DevAdvocacy">>, <<>>>>,
     <<<<"Whiteboard">>, <<>>, <<"[", "DevRel:P", "1]">>>>,
     <<<<"Whiteboard">>, <<"[", "DevRel:P", "1]">>, <<"[", "DevRel:P", "2]">>>>,
     <<<<"Summary">>, <<"old">>, <<"new">>>>,
     <<<<"Priority">>, <<"--">>, <<"P1">>>>}

Rows ==
    {[bug |-> b, what |-> c[1], old |-> c[2], new |-> c[3]] :
        b \in Bugs \cup {<<>>}, c \in Changes}

InitBugzilla ==
    /\ bzpc = "rows"
    /\ nrows = 0
    /\ bug_id = <<>>
    /\ activity = [b \in {} |-> {}]
    /\ titles = [b \in {} |-> <<>>]
    /\ bzprinted = <<>>
    /\ bzout = <<>>

(* lines 72-84: one row of the table; the first row names its bug *)
HandleRow ==
    /\ bzpc = "rows"
    /\ nrows < MaxRows
    /\ \E row \in Rows :
          /\ nrows = 0 => row.bug # <<>>
          /\ LET id == IF row.bug # <<>> THEN row.bug ELSE bug_id
                 action == classify(row.what, row.old, row.new)
                 seen == IF id \in DOMAIN activity THEN activity[id] ELSE {}
             IN  /\ bug_id' = id
                 /\ titles' =
                      IF row.bug # <<>>
                      THEN [b \in DOMAIN titles \cup {row.bug} |->
                               IF b = row.bug THEN TitleAttr(row.bug)[2]
                               ELSE titles[b]]
                      ELSE titles
                 /\ activity' =
                      IF action # None
                      THEN [b \in DOMAIN activity \cup {id} |->
                               IF b = id THEN seen \cup {action} ELSE activity[b]]
                      ELSE activity
                 /\ bzprinted' =
                      bzprinted \o ClassifyPrints(row.what, row.old, row.new)
    /\ nrows' = nrows + 1
    /\ UNCHANGED <<bzpc, bzout, ghvars, clvars>>

(* line 87 *)
BzReport ==
    /\ bzpc = "rows"
    /\ bzout' = bz_report(activity, titles)
    /\ bzprinted' = bzprinted \o UnrecognizedPrints(activity)
    /\ bzpc' = "done"
    /\ UNCHANGED <<nrows, bug_id, activity, titles, ghvars, clvars>>

(* A call of classify on its own.  The field names and the old and new     *)
(* values it is called with, as cell texts (see above).                     *)
Whats ==
    IgnoreFields \cup MetaFields
        \cup {<<"Bug", "ID">>, <<"Attachment", "1">>, <<"Attachment">>,
              <<"Flags">>, <<"Comment", "3">>, <<"Comment">>, <<"Status">>,
              <<"Resolution">>, <<"Priority">>}

Values ==
    {<<>>, <<"(new bug)">>, <<"needinfo", "?(dev@example.com)">>,
     <<"DevAdvocacy">>, <<"DevAdvocacy", ", ", "perf">>,
     <<"[", "DevRel:P", "1]">>, <<"[", "DevRel:P", "2]">>, <<"FIXED">>}

NoCall == [what |-> <<>>, old |-> <<>>, new |-> <<>>]

Pending == "pending"

(* no call of classify on its own is made *)
InitNoCall ==
    /\ call = NoCall
    /\ ret = None

(* classify is about to be called with some field name and values *)
InitCall ==
    /\ call \in [what : Whats, old : Values, new : Values]
    /\ ret = Pending

(* lines 90-128: the call runs and returns *)
Classify ==
    /\ ret = Pending
    /\ ret' = classify(call.what, call.old, call.new)
    /\ bzprinted' = bzprinted \o ClassifyPrints(call.what, call.old, call.new)
    /\ UNCHANGED <<call, bzpc, nrows, bug_id, activity, titles, bzout, ghvars>>

----------------------------------------------------------------------------
(* Specifications *)

Init == InitGitHub /\ InitBugzilla /\ InitNoCall

InitClassify == InitGitHub /\ InitBugzilla /\ InitCall

Next == FetchMixed \/ Report
NextSections == FetchSections \/ Report
NextPush == FetchPush \/ Report
NextPr == FetchPr \/ Report
NextBz == HandleRow \/ BzReport
NextTimed == FetchTimed \/ Report

Spec == Init /\ [][Next]_vars
SpecSections == Init /\ [][NextSections]_vars
SpecPush == Init /\ [][NextPush]_vars
SpecPr == Init /\ [][NextPr]_vars
SpecBz == Init /\ [][NextBz]_vars
SpecTimed == Init /\ [][NextTimed]_vars
SpecClassify == InitClassify /\ [][Classify]_vars

----------------------------------------------------------------------------
(* Properties *)

InWindow(e) == Start <= e.created_at /\ e.created_at < End

(* every event report still holds in a local *)
Held ==
    Range(events) \cup Range(unused)
        \cup UNION {Range(groups[i].events) : i \in DOMAIN groups}
        \cup Range(taken.public) \cup Range(taken.commit) \cup Range(taken.pr)
        \cup Range(taken.issue) \cup Range(taken.wiki)

(* C1: what prune returns is exactly the events e of the history with      *)
(* start <= e.created_at < end, each as often as the history has it; no     *)
(* event outside the window is held by any later step of the report, and a  *)
(* history with no event in the window renders nothing.                     *)
C1_PruneExact ==
    /\ pc = "known" =>
          \A e \in Range(history) \cup Range(events) :
              Count(events, e) = IF InWindow(e) THEN Count(history, e) ELSE 0
    /\ pc \notin {"fetch", "failed"} => \A e \in Held : InWindow(e)
    /\ (pc = "done" /\ \A e \in Range(history) : ~InWindow(e)) => result = <<>>

(* prune has returned one event at `start` and dropped one at `end` *)
C1_Witness ==
    /\ pc = "known"
    /\ Len(history) = 2
    /\ Len(events) = 1
    /\ events[1].created_at = Start
    /\ \E i \in DOMAIN history : history[i].created_at = End

NeitherList(type) ==
    type \notin Range(KEEP_EVENTS) /\ type \notin Range(IGNORE_EVENTS)

(* C2: once the verbose filter has run, for every kind in neither list the  *)
(* warnings naming that kind are as many as the in-window events of that    *)
(* kind, no such event is held by the report, and a history whose in-window *)
(* events are all of such kinds renders nothing.                            *)
C2_UnknownKindWarned ==
    /\ pc \notin {"fetch", "failed", "known"} =>
          \A e \in Range(history) :
              NeitherList(e.type) =>
                  /\ Count(warnings,
                           "Warning: Ignored or unknown event type: " \o e.type)
                       = Cardinality({i \in DOMAIN history :
                                         /\ InWindow(history[i])
                                         /\ history[i].type = e.type})
                  /\ e \notin Held
    /\ (pc = "done"
          /\ \A e \in Range(history) : InWindow(e) => NeitherList(e.type))
       => result = <<>>

(* the report is done; one in-window event of an unlisted kind was warned   *)
(* about once, next to a kept event that was rendered                       *)
C2_Witness ==
    /\ pc = "done"
    /\ Count(warnings, "Warning: Ignored or unknown event type: SponsorshipEvent")
         = 1
    /\ \E i \in DOMAIN history :
          history[i].type = "SponsorshipEvent" /\ InWindow(history[i])
    /\ \E i \in DOMAIN result : result[i].kind = "bullet"

(* C10: the pruner never fails, whatever the history *)
C10_PruneNeverFails == pc # "failed"

(* line i of the report is a heading with a bullet under it: before the    *)
(* next heading of its own rank                                             *)
HasBulletUnder(i) ==
    \E j \in (i + 1)..Len(result) :
        /\ result[j].kind = "bullet"
        /\ \A k \in (i + 1)..(j - 1) :
              IF result[i].kind = "scope"
              THEN result[k].kind # "scope"
              ELSE result[k].kind = "blank"

(* C5: the rendered report has no heading without a bullet under it,       *)
(* neither a section heading nor a repository heading.                      *)
C5_NoEmptyHeading ==
    pc = "done" =>
        \A i \in DOMAIN result :
            result[i].kind \in {"scope", "section"} => HasBulletUnder(i)

Handlers == {"public", "commit", "pr", "issue", "wiki"}

Malformed(e) == e.type = "IssueCommentEvent" /\ "issue" \notin DOMAIN e.payload

(* C9: when the five handlers have run on a repository's events, every     *)
(* event of the repository was taken by exactly one handler or is left in   *)
(* `unused`, never both and never neither; each unused event is then warned *)
(* about by its type; a comment event without an issue in its payload is a  *)
(* comment for neither predicate and ends up unused.                        *)
C9_ClaimedOnceOrWarned ==
    LET group == SelectSeq(events, LAMBDA e : e.repo = repo)
        claims(e) == {h \in Handlers : e \in Range(taken[h])}
        n == Len(warnings) - Len(unused)
    IN  /\ pc \in {"warn", "loop", "done"} =>
              \A e \in Range(group) :
                  /\ Cardinality(claims(e)) <= 1
                  /\ (claims(e) = {}) <=> (e \in Range(unused))
                  /\ Count(taken.public, e) + Count(taken.commit, e)
                       + Count(taken.pr, e) + Count(taken.issue, e)
                       + Count(taken.wiki, e) + Count(unused, e)
                       = Count(group, e)
                  /\ Malformed(e) =>
                        /\ ~is_pr_comment(e)
                        /\ ~is_issue_comment(e)
                        /\ e \in Range(unused)
        /\ pc \in {"loop", "done"} =>
              /\ n >= 0
              /\ \A i \in DOMAIN unused :
                    warnings[n + i]
                        = "Warning: Unused event of type " \o unused[i].type
        /\ pc = "done" =>
              Cardinality({i \in DOMAIN warnings :
                              warnings[i]
                                  = "Warning: Unused event of type IssueCommentEvent"})
                  = Cardinality({i \in DOMAIN events : Malformed(events[i])})

(* a repository was reported with an event taken by the issue handler, a   *)
(* malformed comment warned about as unused, and a rendered line            *)
C9_Witness ==
    /\ pc = "done"
    /\ taken.issue # <<>>
    /\ \E i \in DOMAIN unused : Malformed(unused[i])
    /\ "Warning: Unused event of type IssueCommentEvent" \in Range(warnings)
    /\ \E i \in DOMAIN result : result[i].kind = "bullet"

(* the pushes of the repository being reported, and their sizes by branch *)
RepoPushes ==
    SelectSeq(events, LAMBDA e : e.repo = repo /\ e.type = "PushEvent")

RECURSIVE SumSizes(_, _)
SumSizes(pushes, branch) ==
    IF pushes = <<>> THEN 0
    ELSE (IF Last(Head(pushes).payload.ref) = branch
          THEN Head(pushes).payload.size ELSE 0)
         + SumSizes(Tail(pushes), branch)

PushedBranches == {Last(RepoPushes[i].payload.ref) : i \in DOMAIN RepoPushes}

C7Line(branch) ==
    LET n == SumSizes(RepoPushes, branch)
    IN  "pushed " \o ToString(n) \o (IF n = 1 THEN " commit" ELSE " commits")
            \o " to branch " \o branch

(* C7: after handle_commit_events, each branch (the last path segment of   *)
(* the pushed ref) whose pushes sum to N > 0 has exactly one line "pushed N *)
(* commit(s) to branch B", with "commit" iff N = 1; a branch whose pushes   *)
(* are all of size 0 has none; there are no other push lines.               *)
C7_PushLines ==
    pc = "pr" =>
        /\ \A b \in PushedBranches :
              Count(lines, C7Line(b))
                  = IF SumSizes(RepoPushes, b) > 0 THEN 1 ELSE 0
        /\ Len(lines)
             = Cardinality({b \in PushedBranches : SumSizes(RepoPushes, b) > 0})
               + Len(SelectSeq(events, LAMBDA e :
                         e.repo = repo /\ e.type = "CommitCommentEvent"))

(* pushes of 3 and 2 commits to refs/heads/main were summed into one       *)
(* plural line; the size-0 push to dev left no line                         *)
C7_Witness ==
    /\ pc = "pr"
    /\ Len(RepoPushes) = 3
    /\ \E i \in DOMAIN RepoPushes :
          /\ RepoPushes[i].payload.size = 0
          /\ RepoPushes[i].payload.ref = RefDev
    /\ \E i \in DOMAIN RepoPushes :
          /\ RepoPushes[i].payload.size = 3
          /\ RepoPushes[i].payload.ref = RefMain
    /\ lines = <<"pushed 5 commits to branch main">>

(* the pull request events the handler took, as its loops visit them *)
TakenPrs ==
    ByCreatedAt(SelectSeq(taken.pr, LAMBDA e : e.type = "PullRequestEvent"))

TakenPrComments == SelectSeq(taken.pr, is_pr_comment)

TakenReviews ==
    SelectSeq(taken.pr, LAMBDA e : e.type = "PullRequestReviewCommentEvent")

TakenIssues == SelectSeq(taken.issue, LAMBDA e : e.type = "IssuesEvent")

TakenIssueComments == SelectSeq(taken.issue, is_issue_comment)

(* collapse: keep an action unless it equals the one just before it *)
C6Collapse(actions) ==
    LET kept == {i \in DOMAIN actions : i = 1 \/ actions[i] # actions[i - 1]}
    IN  [p \in 1..Cardinality(kept) |->
            actions[CHOOSE i \in kept :
                       Cardinality({j \in kept : j < i}) = p - 1]]

RECURSIVE C6Commas(_)
C6Commas(words) ==
    IF Len(words) = 1 THEN "and " \o words[1]
    ELSE words[1] \o ", " \o C6Commas(Tail(words))

(* join: "A", "A and B", "A, B, ..., and Z" *)
C6Join(words) ==
    IF Len(words) = 1 THEN words[1]
    ELSE IF Len(words) = 2 THEN words[1] \o " and " \o words[2]
    ELSE C6Commas(words)

(* C6: every pull request line and every issue line starts with            *)
(* join(collapse(actions)) of its key's actions, collapse dropping exactly  *)
(* the actions equal to their predecessor and join applied to the           *)
(* collapsed list; collapsing the collapsed list changes nothing.           *)
C6_VerbPhrase ==
    /\ pc = "issue" =>
          LET acts == PrActions(TakenPrs, TakenPrComments, TakenReviews, Who)
          IN  /\ Len(lines) = Cardinality(DOMAIN acts)
              /\ \A k \in DOMAIN acts :
                    /\ Count(lines,
                             PrLineText(C6Join(C6Collapse(acts[k])), k, Who)) = 1
                    /\ uniq(uniq(acts[k])) = uniq(acts[k])
    /\ pc = "wiki" =>
          LET acts == IssueActions(TakenIssues, TakenIssueComments)
          IN  /\ Len(lines) = Cardinality(DOMAIN acts)
              /\ \A k \in DOMAIN acts :
                    /\ Count(lines,
                             IssueLineText(C6Join(C6Collapse(acts[k])), k)) = 1
                    /\ uniq(uniq(acts[k])) = uniq(acts[k])

(* a pull request opened, closed and opened again: three verbs joined with *)
(* the oxford comma, the repeated verb kept                                 *)
C6_Witness ==
    /\ pc = "issue"
    /\ lines = <<"opened, closed, and opened [pull request #2]"
                   \o "(https://github.com/pull/2) by @octocat: PR2">>

(* the verb of a pull request event *)
C8Verb(e) ==
    LET pr == e.payload.pull_request
        action == e.payload.action
    IN  IF action = "closed" /\ pr.merged THEN "merged"
        ELSE IF pr.user.login # Who THEN action
        ELSE IF action = "opened" THEN "proposed"
        ELSE IF action = "closed" THEN "rescinded"
        ELSE action

(* the verbs of key k in the order the handler appends them *)
C8Verbs(k) ==
    LET a == SelectSeq(TakenPrs, LAMBDA e : PrKey(e.payload.pull_request) = k)
        b == SelectSeq(TakenPrComments, LAMBDA e :
                 PrKey(e.payload.issue) = k /\ e.payload.action # "deleted")
        c == SelectSeq(TakenReviews, LAMBDA e :
                 PrKey(e.payload.pull_request) = k
                     /\ e.payload.action # "deleted")
    IN  [i \in DOMAIN a |-> C8Verb(a[i])]
            \o [i \in DOMAIN b |-> "discussed"]
            \o [i \in DOMAIN c |-> "discussed"]

(* C8: in the pull request lines, a closed event with merged = true        *)
(* contributes "merged" whoever the author is; for the subject's own pull   *)
(* requests "opened" reads "proposed" and a non-merged "closed" reads       *)
(* "rescinded"; for other authors the action is the verb.                   *)
C8_PrVerbs ==
    pc = "issue" =>
        LET keys == {PrKey(TakenPrs[i].payload.pull_request) :
                        i \in DOMAIN TakenPrs}
        IN  \A k \in keys :
                Count(lines, PrLineText(Did(C8Verbs(k)), k, Who)) = 1

(* the subject's own pull request was opened and then closed as merged *)
C8_Witness ==
    /\ pc = "issue"
    /\ Len(TakenPrs) = 2
    /\ TakenPrs[2].payload.action = "closed"
    /\ TakenPrs[2].payload.pull_request.merged
    /\ TakenPrs[2].payload.pull_request.user.login = Who
    /\ lines = <<"proposed and merged [pull request #1]"
                   \o "(https://github.com/pull/1): PR1">>

(* the fixed priority order of the buckets *)
C3Priority ==
    <<REPORTED, ATTACHMENTS, NEEDINFO, DISCUSSED, STATUS, TAGGED, METADATA,
      OTHER_>>

(* the highest-priority bucket among those touched *)
C3Top(touched) ==
    C3Priority[CHOOSE i \in DOMAIN C3Priority :
                   /\ C3Priority[i] \in touched
                   /\ \A j \in 1..(i - 1) : C3Priority[j] \notin touched]

Listed(b) == activity[b] \ {TRIAGED} # {}

ItemLine(b) == "* " \o BugLink(b) \o " - " \o Escape(titles[b])

(* the heading the i-th line of the tracker report stands under *)
HeadingOver(i) ==
    LET above == {j \in 1..(i - 1) : bzout[j].kind = "scope"}
    IN  bzout[CHOOSE j \in above : \A k \in above : k <= j].text

C3Heading(bucket) ==
    "#### "
        \o Description(bucket,
               Cardinality({b \in DOMAIN activity :
                               Listed(b) /\ C3Top(activity[b]) = bucket}))
        \o ":"

(* C3: in the tracker report every bug that touched a bucket other than    *)
(* Triaged is listed exactly once, under the heading of the highest-        *)
(* priority bucket it touched (Reported > Attachments > NeedInfo >          *)
(* Discussed > StatusChanged > Tagged > Metadata > Other).                  *)
C3_TopBucketOnly ==
    bzpc = "done" =>
        \A b \in DOMAIN activity :
            Listed(b) =>
                LET at == {i \in DOMAIN bzout : bzout[i].text = ItemLine(b)}
                IN  /\ Cardinality(at) = 1
                    /\ \A i \in at :
                          /\ bzout[i].kind = "bullet"
                          /\ HeadingOver(i) = C3Heading(C3Top(activity[b]))

(* one bug touched Reported and Other, the other Attachments and Discussed *)
C3_Witness ==
    /\ bzpc = "done"
    /\ \E b \in DOMAIN activity : activity[b] = {REPORTED, OTHER_}
    /\ \E b \in DOMAIN activity : activity[b] = {ATTACHMENTS, DISCUSSED}

(* C4: a bug whose only bucket is Triaged is on no item line of the         *)
(* tracker report and is counted in the triaged tally; the tally is a       *)
(* heading with the count over a single line that names no bug.             *)
C4_TriagedTally ==
    bzpc = "done" =>
        LET only == {b \in DOMAIN activity : activity[b] = {TRIAGED}}
            touched == {b \in DOMAIN activity : TRIAGED \in activity[b]}
            tally == {i \in DOMAIN bzout :
                         bzout[i].text
                             = "#### Triaged " \o ToString(Cardinality(touched))
                                   \o " DevAdvocacy Bugs"}
        IN  /\ \A b \in only, i \in DOMAIN bzout : bzout[i].text # ItemLine(b)
            /\ \A i \in DOMAIN bzout :
                  bzout[i].kind = "bullet" =>
                      \/ bzout[i].text = "* _not listed_"
                      \/ \E b \in DOMAIN activity \ only :
                            bzout[i].text = ItemLine(b)
            /\ only # {} =>
                  /\ tally = {Len(bzout) - 2}
                  /\ bzout[Len(bzout) - 1].kind = "blank"
                  /\ bzout[Len(bzout)].text = "* _not listed_"
            /\ Cardinality({i \in DOMAIN bzout :
                               bzout[i].text = "* _not listed_"})
                 = IF touched = {} THEN 0 ELSE 1

(* one bug was only triaged, another was triaged and discussed *)
C4_Witness ==
    /\ bzpc = "done"
    /\ \E b \in DOMAIN activity : activity[b] = {TRIAGED}
    /\ \E b \in DOMAIN activity : activity[b] = {TRIAGED, DISCUSSED}

(* the kinds the taxonomy names as ignorable *)
IgnorableKinds ==
    {"DeploymentEvent", "DeploymentStatusEvent", "MembershipEvent",
     "PageBuildEvent", "RepositoryEvent", "StatusEvent", "TeamAddEvent",
     "CreateEvent", "DeleteEvent", "ForkEvent", "MemberEvent", "WatchEvent",
     "DownloadEvent", "FollowEvent", "ForkApplyEvent", "GistEvent"}

(* C11: every ignorable kind is a member of the ignore list and of no keep  *)
(* list entry, and once the verbose filter has run no event of an ignorable *)
(* kind has been warned about as unknown or is held by the report.          *)
C11_IgnorableSilent ==
    pc \notin {"fetch", "failed", "known"} =>
        \A e \in Range(history) :
            e.type \in IgnorableKinds =>
                /\ e.type \in Range(IGNORE_EVENTS)
                /\ e.type \notin Range(KEEP_EVENTS)
                /\ Count(warnings, UnknownMsg(e.type)) = 0
                /\ e \notin Held

(* the rule table, first match wins; None is "no bucket" *)
C12Table(what, old, new) ==
    IF what \in {<<"CC">>, <<"Hardware">>, <<"Version">>, <<"OS">>,
                 <<"Last", "Resolved">>, <<"Ever", "confirmed">>}
    THEN None
    ELSE IF what = <<"Bug", "ID">> /\ old = <<"(new bug)">> THEN "reported"
    ELSE IF Len(what) = 2 /\ what[1] = "Attachment" THEN "attachments"
    ELSE IF what = <<"Flags">>
            /\ ("needinfo" \in Range(old) \/ "needinfo" \in Range(new))
         THEN "needinfo"
    ELSE IF Len(what) = 2 /\ what[1] = "Comment" THEN "discussed"
    ELSE IF what = <<"Status">> \/ what = <<"Resolution">> THEN "status"
    ELSE IF what = <<"Keywords">>
            /\ "DevAdvocacy" \in Range(new) /\ "DevAdvocacy" \notin Range(old)
         THEN "tagged"
    ELSE IF what = <<"Whiteboard">>
            /\ (("DevRel:P" \in Range(old)) # ("DevRel:P" \in Range(new)))
         THEN "triaged"
    ELSE IF what \in {<<"Whiteboard">>, <<"See", "Also">>, <<"Blocks">>,
                      <<"Depends", "on">>, <<"Keywords">>, <<"Summary">>}
         THEN "metadata"
    ELSE "other"

(* C12: a call of classify returns what the rule table gives for its       *)
(* arguments, and has printed a warning exactly when that is Other.         *)
C12_ClassifyIsTable ==
    ret # Pending =>
        /\ ret = C12Table(call.what, call.old, call.new)
        /\ (bzprinted # <<>>) = (C12Table(call.what, call.old, call.new) = "other")

(* no two of the events have the same timestamp *)
DistinctTimes(evs) ==
    \A i, j \in DOMAIN evs : i # j => evs[i].created_at # evs[j].created_at

(* the pull request an event is about, as the key of its line *)
C13Key(e) ==
    IF e.type = "IssueCommentEvent"
    THEN PrKey(e.payload.issue)
    ELSE PrKey(e.payload.pull_request)

C13Verb(e) ==
    IF e.type = "PullRequestEvent" THEN pr_verb(e, Who) ELSE "discussed"

(* the verbs of the events about pull request k, earliest event first *)
C13Chronological(k) ==
    LET about == SelectSeq(ByCreatedAt(taken.pr),
                           LAMBDA e : C13Key(e) = k
                                         /\ e.payload.action # "deleted")
    IN  [i \in DOMAIN about |-> C13Verb(about[i])]

(* C13: when the pull request events of a repository have pairwise         *)
(* distinct timestamps, the line of each pull request carries the verbs of  *)
(* its events (changes, comments, review comments) earliest first.          *)
C13_VerbsChronological ==
    (pc = "issue" /\ DistinctTimes(taken.pr)) =>
        \A k \in {C13Key(e) : e \in Range(NotDeleted(taken.pr))} :
            Count(lines, PrLineText(Did(C13Chronological(k)), k, Who)) = 1

(* C14: the report of a history with pairwise distinct timestamps is the   *)
(* report of the same events supplied earliest first, so the text is the    *)
(* same for every arrival order of those events.                            *)
C14_ArrivalOrderIrrelevant ==
    (pc = "done" /\ DistinctTimes(history)) =>
        result = ReportText(ByCreatedAt(history), Who)

====
